---------------------------- MODULE Spec2Model ----------------------------
(***************************************************************************)
(* Kernel heap of sarrus-os (src/src/mm/memory.c) on its 32-bit target.    *)
(*                                                                         *)
(* Memory is modelled word by word: mem maps the address of every 32-bit   *)
(* word that holds a non-zero value to that value, every other word reads  *)
(* 0 (the RAM image at boot is taken to be zero-filled).  Block headers    *)
(* live in that memory, so a header that a merge has absorbed stays where  *)
(* it was, a fill or copy over a header changes it, and a pointer handed   *)
(* out earlier still finds whatever now lies in front of it.               *)
(***************************************************************************)
EXTENDS Integers, Naturals, Sequences, FiniteSets, TLC

(* ------------------------- 32-bit arithmetic --------------------------- *)

(***************************************************************************)
(* A 32-bit word is written as the two's complement integer with the same  *)
(* bit pattern (-7 is 0xFFFFFFF9), since TLC's integers have 32 bits       *)
(* themselves; Word(hi, lo) builds one from its 16-bit halves, and         *)
(* sums, differences, products and comparisons are those of uint32_t.      *)
(***************************************************************************)
Hi(w) == IF w >= 0 THEN w \div 65536 ELSE 32768 + (((w + 2147483647) + 1) \div 65536)

Lo(w) == w % 65536

Word(hi, lo) == IF hi < 32768 THEN hi * 65536 + lo ELSE (hi - 65536) * 65536 + lo

Add32(a, b) ==
    LET lo == Lo(a) + Lo(b)
        hi == Hi(a) + Hi(b) + (lo \div 65536)
    IN  Word(hi % 65536, lo % 65536)

Sub32(a, b) ==
    LET lo == (Lo(a) - Lo(b)) + 65536
        hi == ((Hi(a) - Hi(b)) - 1) + (lo \div 65536) + 65536
    IN  Word(hi % 65536, lo % 65536)

ULt(a, b) == Hi(a) < Hi(b) \/ (Hi(a) = Hi(b) /\ Lo(a) < Lo(b))

ULe(a, b) == a = b \/ ULt(a, b)

\* the low 16 bits of the product of two 16-bit halves
MulLo16(x, y) == ((x % 256) * y + ((x \div 256) * (y % 256)) * 256) % 65536

\* a * b on 32 bits
Mul32(a, b) ==
    LET q == (Lo(a) \div 256) * Lo(b)
        lowlow == Add32(Word(q \div 256, (q % 256) * 256), (Lo(a) % 256) * Lo(b))
        cross == (MulLo16(Hi(a), Lo(b)) + MulLo16(Lo(a), Hi(b))) % 65536
    IN  Add32(lowlow, Word(cross, 0))

\* (size + 7) & ~7 on a 32-bit size_t
Align8(size) == LET s == Add32(size, 7) IN Word(Hi(s), Lo(s) - (Lo(s) % 8))

\* a lies in the n bytes starting at base (addresses wrap at 2^32)
InRange(a, base, n) == ULt(Sub32(a, base), n)

(* ------------------------------ constants ------------------------------ *)

NULL == 0

\* 0xDEADBEEF and 0xFEEDFACE
HEAP_MAGIC_ALLOC == Word(57005, 48879)

HEAP_MAGIC_FREE == Word(65261, 64206)

KERNEL_PHYSICAL_BASE == 1048576

\* sizeof(heap_block_t) with 4-byte int, size_t and pointers: seven words
HeaderSize == 28

\* byte offsets of the fields of heap_block_t
OFF_MAGIC == 0

OFF_SIZE == 4

OFF_IS_FREE == 8

OFF_NEXT == 12

OFF_PREV == 16

OFF_FILE == 20

OFF_LINE == 24

\* minimum payload left over for split_block to cut a block
MIN_SPLIT == 32

\* memory_init: heap_start and the arena length
BASIC_HEAP_START == 5242880

BASIC_HEAP_BYTES == 65536

\* 0xFFFFFFF9, the least size that (size + 7) carries past 32 bits
WRAP_SIZE == Word(65535, 65529)

DoubleFreeMsg == "DOUBLE FREE OR CORRUPTION DETECTED!\n"

CorruptionMsg == "HEAP CORRUPTION DETECTED!\n"

ExhaustedMsg == "Heap exhausted - no expansion in basic mode\n"

(* ------------------------------- memory -------------------------------- *)

Rd(m, a) == IF a \in DOMAIN m THEN m[a] ELSE 0

Wr(m, a, v) ==
    IF a \in DOMAIN m
    THEN IF v = 0 THEN [x \in DOMAIN m \ {a} |-> m[x]] ELSE [m EXCEPT ![a] = v]
    ELSE IF v = 0 THEN m ELSE (a :> v) @@ m

Magic(m, b) == Rd(m, Add32(b, OFF_MAGIC))

Size(m, b) == Rd(m, Add32(b, OFF_SIZE))

IsFree(m, b) == Rd(m, Add32(b, OFF_IS_FREE)) # 0

NextOf(m, b) == Rd(m, Add32(b, OFF_NEXT))

PrevOf(m, b) == Rd(m, Add32(b, OFF_PREV))

\* the seven stores that lay down a whole header, in field order
WriteHeader(m, b, magic, size, free, next, prev) ==
    LET m1 == Wr(m, Add32(b, OFF_MAGIC), magic)
        m2 == Wr(m1, Add32(b, OFF_SIZE), size)
        m3 == Wr(m2, Add32(b, OFF_IS_FREE), free)
        m4 == Wr(m3, Add32(b, OFF_NEXT), next)
        m5 == Wr(m4, Add32(b, OFF_PREV), prev)
        m6 == Wr(m5, Add32(b, OFF_FILE), NULL)
    IN  Wr(m6, Add32(b, OFF_LINE), 0)

\* a word with its k lowest-addressed (little-endian: low-order) bytes cleared
ClearLowBytes(w, k) ==
    IF k = 1 THEN Word(Hi(w), Lo(w) - (Lo(w) % 256))
    ELSE IF k = 2 THEN Word(Hi(w), 0)
    ELSE Word(Hi(w) - (Hi(w) % 256), 0)

\* memset(ptr, 0, size): whole words, then the first bytes of the last word
MemsetZero(m, ptr, size) ==
    LET odd == Lo(size) % 4
        whole == Sub32(size, odd)
        tail == Add32(ptr, whole)
        keep == {x \in DOMAIN m : ~InRange(x, ptr, whole)}
        cut == [x \in keep |-> m[x]]
    IN  IF odd = 0 THEN cut
        ELSE Wr(cut, tail, ClearLowBytes(Rd(cut, tail), odd))

\* the word a forward copy of n bytes from src to dst stores at dst + i:
\* when dst lies inside the source the words already stored are read again
CopySource(dst, src, n, i) ==
    LET d == Sub32(dst, src)
    IN  IF d # 0 /\ ULt(d, n) THEN Add32(src, i % d) ELSE Add32(src, i)

\* memcpy(dst, src, n) on word-aligned arguments, n a multiple of 4
Memcpy(m, dst, src, n) ==
    LET d == Sub32(dst, src)
        filled == IF d # 0 /\ ULt(d, n)
                  THEN {Add32(dst, 4 * k) : k \in 0 .. ((n \div 4) - 1)}
                  ELSE {Add32(dst, Sub32(s, src)) : s \in {x \in DOMAIN m : InRange(x, src, n)}}
        from(x) == CopySource(dst, src, n, Sub32(x, dst))
        nonzero == {x \in filled : Rd(m, from(x)) # 0}
        keep == {x \in DOMAIN m : ~InRange(x, dst, n)}
    IN  [x \in keep \cup nonzero |-> IF x \in nonzero THEN m[from(x)] ELSE m[x]]

(* ------------------------------ the heap ------------------------------- *)

\* the walk of find_free_block; it reads and never writes, so once it has
\* passed more valid headers than memory holds non-zero words it is in a
\* cycle of next links and never returns
RECURSIVE find_walk(_, _, _, _)
find_walk(m, current, size, fuel) ==
    IF current = NULL
    THEN [block |-> NULL, msgs |-> <<>>, hang |-> FALSE]
    ELSE IF fuel = 0
    THEN [block |-> NULL, msgs |-> <<>>, hang |-> TRUE]
    ELSE IF Magic(m, current) # HEAP_MAGIC_FREE /\ Magic(m, current) # HEAP_MAGIC_ALLOC
    THEN [block |-> NULL, msgs |-> <<CorruptionMsg>>, hang |-> FALSE]
    ELSE IF IsFree(m, current) /\ ULe(size, Size(m, current))
    THEN [block |-> current, msgs |-> <<>>, hang |-> FALSE]
    ELSE find_walk(m, NextOf(m, current), size, fuel - 1)

find_free_block(m, first, size) ==
    find_walk(m, first, size, Cardinality(DOMAIN m) + 1)

\* one store into a field of the header at b
St(m, b, off, v) == Wr(m, Add32(b, off), v)

\* split_block with the remainder sized as if its header took no room
split_block_headerless(m, block, size) ==
    IF ULt(Add32(Add32(size, HeaderSize), MIN_SPLIT), Size(m, block))
    THEN LET new_block == Add32(Add32(block, HeaderSize), size)
             m1 == WriteHeader(m, new_block, HEAP_MAGIC_FREE,
                               Sub32(Size(m, block), size), 1,
                               NextOf(m, block), block)
             m2 == IF NextOf(m, block) # NULL
                   THEN St(m1, NextOf(m, block), OFF_PREV, new_block)
                   ELSE m1
             m3 == St(m2, block, OFF_SIZE, size)
         IN  St(m3, block, OFF_NEXT, new_block)
    ELSE m

split_block(m, block, size) ==
    IF ULt(Add32(Add32(size, HeaderSize), MIN_SPLIT), Size(m, block))
    THEN LET new_block == Add32(Add32(block, HeaderSize), size)
             set_size(x) == St(x, new_block, OFF_SIZE,
                               Sub32(Sub32(Size(x, block), size), HeaderSize))
             set_next(x) == St(x, new_block, OFF_NEXT, NextOf(x, block))
             set_back(x) == IF NextOf(x, block) # NULL
                            THEN St(x, NextOf(x, block), OFF_PREV, new_block)
                            ELSE x
             m1 == St(m, new_block, OFF_MAGIC, HEAP_MAGIC_FREE)
             m2 == set_size(m1)
             m3 == St(m2, new_block, OFF_IS_FREE, 1)
             m4 == set_next(m3)
             m5 == St(m4, new_block, OFF_PREV, block)
             m6 == St(m5, new_block, OFF_FILE, NULL)
             m7 == St(m6, new_block, OFF_LINE, 0)
             m8 == set_back(m7)
             m9 == St(m8, block, OFF_SIZE, size)
         IN  St(m9, block, OFF_NEXT, new_block)
    ELSE m

\* one turn of the while loop of merge_free_blocks: block absorbs next
absorb(m, block, next) ==
    LET set_next(x) == St(x, block, OFF_NEXT, NextOf(x, next))
        set_back(x) == IF NextOf(x, next) # NULL
                       THEN St(x, NextOf(x, next), OFF_PREV, block)
                       ELSE x
        m1 == St(m, block, OFF_SIZE,
                 Add32(Size(m, block), Add32(Size(m, next), HeaderSize)))
        m2 == set_next(m1)
    IN  set_back(m2)

\* the while loop of merge_free_blocks; a loop that outlasts the fuel is
\* running round a cycle of free blocks and never leaves it
RECURSIVE merge_forward(_, _, _)
merge_forward(m, block, fuel) ==
    IF NextOf(m, block) # NULL /\ IsFree(m, NextOf(m, block))
    THEN IF fuel = 0
         THEN [mem |-> m, hang |-> TRUE]
         ELSE merge_forward(absorb(m, block, NextOf(m, block)), block, fuel - 1)
    ELSE [mem |-> m, hang |-> FALSE]

\* the backward merge: prev absorbs block
merge_backward(m, block) ==
    IF PrevOf(m, block) # NULL /\ IsFree(m, PrevOf(m, block))
    THEN absorb(m, PrevOf(m, block), block)
    ELSE m

merge_free_blocks(m, block) ==
    LET back(fwd) == IF fwd.hang THEN fwd
                     ELSE [mem |-> merge_backward(fwd.mem, block), hang |-> FALSE]
    IN  back(merge_forward(m, block, Cardinality(DOMAIN m) + 1))

\* every heap call yields the memory and statistics it leaves, the pointer
\* it returns, what it printed, and whether it fails to return at all
Outcome(m, st, ret, msgs, hang) ==
    [mem |-> m, stats |-> st, ret |-> ret, msgs |-> msgs, hang |-> hang]

\* kmalloc once find_free_block has returned block: mark, split, count
take_block(m, st, block, sz, msgs) ==
    LET m1 == St(m, block, OFF_MAGIC, HEAP_MAGIC_ALLOC)
        m2 == St(m1, block, OFF_IS_FREE, 0)
        m3 == St(m2, block, OFF_FILE, NULL)
        m4 == St(m3, block, OFF_LINE, 0)
        st1 == [st EXCEPT !.allocation_count = Add32(@, 1),
                          !.heap_used = Add32(@, sz),
                          !.heap_free = Sub32(@, sz)]
    IN  Outcome(split_block(m4, block, sz), st1, Add32(block, HeaderSize), msgs, FALSE)

kmalloc(m, st, first, size) ==
    LET with(sz, found) ==
            IF found.hang THEN Outcome(m, st, NULL, found.msgs, TRUE)
            ELSE IF found.block = NULL
            THEN Outcome(m, st, NULL, found.msgs \o <<ExhaustedMsg>>, FALSE)
            ELSE take_block(m, st, found.block, sz, found.msgs)
        rounded(sz) == with(sz, find_free_block(m, first, sz))
    IN  IF size = 0 THEN Outcome(m, st, NULL, <<>>, FALSE)
        ELSE rounded(Align8(size))

\* kfree once the magic has been found valid: mark free, count, merge
release_block(m, st, block) ==
    LET m1 == St(m, block, OFF_MAGIC, HEAP_MAGIC_FREE)
        m2 == St(m1, block, OFF_IS_FREE, 1)
        st1 == [st EXCEPT !.free_count = Add32(@, 1),
                          !.heap_used = Sub32(@, Size(m, block)),
                          !.heap_free = Add32(@, Size(m, block))]
        done(merged) == Outcome(merged.mem, st1, NULL, <<>>, merged.hang)
    IN  done(merge_free_blocks(m2, block))

\* kfree that takes the free sentinel for a live block and frees again
kfree_twice(m, st, ptr) ==
    LET at(block) == IF Magic(m, block) \notin {HEAP_MAGIC_ALLOC, HEAP_MAGIC_FREE}
                     THEN Outcome(m, st, NULL, <<DoubleFreeMsg>>, FALSE)
                     ELSE release_block(m, st, block)
    IN  IF ptr = NULL THEN Outcome(m, st, NULL, <<>>, FALSE)
        ELSE at(Sub32(ptr, HeaderSize))

kfree(m, st, ptr) ==
    LET at(block) == IF Magic(m, block) # HEAP_MAGIC_ALLOC
                     THEN Outcome(m, st, NULL, <<DoubleFreeMsg>>, FALSE)
                     ELSE release_block(m, st, block)
    IN  IF ptr = NULL THEN Outcome(m, st, NULL, <<>>, FALSE)
        ELSE at(Sub32(ptr, HeaderSize))

\* kcalloc: the product is a 32-bit size_t; a fill that runs over the kernel
\* image at KERNEL_PHYSICAL_BASE takes the machine down before it returns
kcalloc(m, st, first, count, size) ==
    LET filled(total_size, got) ==
            IF got.hang \/ got.ret = NULL THEN got
            ELSE Outcome(MemsetZero(got.mem, got.ret, total_size), got.stats,
                         got.ret, got.msgs,
                         InRange(KERNEL_PHYSICAL_BASE, got.ret, total_size))
        of(total_size) == filled(total_size, kmalloc(m, st, first, total_size))
    IN  of(Mul32(count, size))

\* krealloc once the new block is there: copy block->size bytes, free the old
move_block(got, block, ptr) ==
    LET done(freed) == Outcome(freed.mem, freed.stats, got.ret,
                               got.msgs \o freed.msgs, freed.hang)
    IN  done(kfree(Memcpy(got.mem, got.ret, ptr, Size(got.mem, block)),
                   got.stats, ptr))

krealloc(m, st, first, ptr, size) ==
    LET grown(got, block) == IF got.hang \/ got.ret = NULL THEN got
                             ELSE move_block(got, block, ptr)
        at(block) == IF Magic(m, block) # HEAP_MAGIC_ALLOC
                     THEN Outcome(m, st, NULL, <<>>, FALSE)
                     ELSE IF ULe(size, Size(m, block))
                     THEN Outcome(m, st, ptr, <<>>, FALSE)
                     ELSE grown(kmalloc(m, st, first, size), block)
    IN  IF ptr = NULL THEN kmalloc(m, st, first, size)
        ELSE IF size = 0 THEN kfree(m, st, ptr)
        ELSE at(Sub32(ptr, HeaderSize))

(* ------------------------------- state --------------------------------- *)

VARIABLES
    mem,          \* RAM: word address |-> non-zero word
    heap_first,   \* head of the block list
    heap_start,   \* first byte of the arena
    heap_end,     \* one past the last byte of the arena
    mem_stats,    \* the statistics record
    halted,       \* the machine hung or went down inside a call
    issued,       \* every pointer the allocator has returned to its caller
    call,         \* the call made last, with what it returned and printed
    armed,        \* the kmalloc just made, and whether its kfree followed
    scen,         \* how far the calls so far follow memory_test's allocations
    total_memory,     \* pmm_init's mem_size
    max_free_pages,   \* capacity of the free page stack
    free_page_stack,  \* the entries below free_page_count, bottom first
    free_page_count,  \* entries on the free page stack
    used_pages,       \* frames handed out and not returned
    page_directory,   \* address the code reads the page directory through
    pcall,        \* the frame or paging call made last
    steps,        \* frame and paging calls made so far
    live,         \* frames pmm_alloc_page returned and nobody freed since
    pairs         \* the run of alloc/free pairs in progress

heapvars == <<heap_first, heap_start, heap_end, issued, call, armed, scen>>

pmmvars == <<total_memory, max_free_pages, free_page_stack, free_page_count,
             used_pages, page_directory, pcall, steps, live, pairs>>

vars == <<mem, mem_stats, halted, heapvars, pmmvars>>

\* the blocks of the list, head first: << address, size, is_free >> each;
\* the walk stops at NULL or at the first block it meets again
RECURSIVE Chain(_, _, _)
Chain(m, cur, seen) ==
    IF cur = NULL \/ cur \in {seen[i] : i \in 1 .. Len(seen)}
    THEN seen
    ELSE Chain(m, NextOf(m, cur), Append(seen, cur))

Blocks(m, first) == Chain(m, first, <<>>)

BlockList(m, first) ==
    LET list(bs) == [i \in 1 .. Len(bs) |-> <<bs[i], Size(m, bs[i]), IsFree(m, bs[i])>>]
    IN  list(Blocks(m, first))

\* no frame or paging call yet
NoCall == [op |-> "boot", mem_size |-> 0, page |-> 0, virt |-> 0, phys |-> 0,
           flags |-> 0, ret |-> 0]

NoPairs == [on |-> FALSE, base |-> 0, out |-> <<>>]

Idle == [stage |-> 0, ptr |-> NULL, size |-> 0, nolow |-> FALSE, snap |-> <<>>]

\* memory_init
Init ==
    /\ heap_start = BASIC_HEAP_START
    /\ heap_end = BASIC_HEAP_START + BASIC_HEAP_BYTES
    /\ heap_first = BASIC_HEAP_START
    /\ mem = WriteHeader(<<>>, BASIC_HEAP_START, HEAP_MAGIC_FREE,
                         BASIC_HEAP_BYTES - HeaderSize, 1, NULL, NULL)
    /\ mem_stats = [heap_size |-> BASIC_HEAP_BYTES,
                    heap_free |-> BASIC_HEAP_BYTES - HeaderSize,
                    heap_used |-> 0,
                    allocation_count |-> 0,
                    free_count |-> 0,
                    total_physical |-> 32 * 1024 * 1024,
                    used_physical |-> 5 * 1024 * 1024,
                    free_physical |-> 27 * 1024 * 1024,
                    total_virtual |-> 0,
                    used_virtual |-> 0]
    /\ halted = FALSE
    /\ issued = {}
    /\ call = [op |-> "memory_init", size |-> 0, count |-> 0, ptr |-> NULL,
               ret |-> NULL, msgs |-> <<>>]
    /\ armed = Idle
    /\ scen = 0
    /\ total_memory = 0
    /\ max_free_pages = 0
    /\ free_page_stack = <<>>
    /\ free_page_count = 0
    /\ used_pages = 0
    /\ page_directory = NULL
    /\ pcall = NoCall
    /\ steps = 0
    /\ live = {}
    /\ pairs = NoPairs

(* ------------------------------- bounds --------------------------------- *)

\* successful allocations plus successful frees a run of Spec may make
MaxOps == 3

\* the same for TrapSpec and DeepSpec, which draw from fewer sizes
TrapOps == 7

DeepOps == 9

Sizes == {0, 512, 1024, 2048, BASIC_HEAP_BYTES, WRAP_SIZE}

\* 0x20000001 * 8 is 2^32 + 8
CallocArgs == {<<1, 64>>, <<65536, 65536>>, <<536870913, 8>>, <<1, WRAP_SIZE>>}

DeepSizes == {64, WRAP_SIZE}

DeepReallocSizes == {WRAP_SIZE}

DeepCallocArgs == {<<1, WRAP_SIZE>>}

\* distinct pointers a run of TrapSpec or DeepSpec may be handed
DeepPtrs == 3

Budget(n) == mem_stats.allocation_count + mem_stats.free_count < n

Handed(r, k) == Cardinality(issued \cup ({r.ret} \ {NULL})) <= k

(* ------------------------------ operations ------------------------------ *)

Returned(r, op, size, count, ptr) ==
    /\ mem' = r.mem
    /\ mem_stats' = r.stats
    /\ halted' = r.hang
    /\ call' = [op |-> op, size |-> size, count |-> count, ptr |-> ptr,
                ret |-> r.ret, msgs |-> r.msgs]
    /\ UNCHANGED <<heap_first, heap_start, heap_end>>
    /\ UNCHANGED pmmvars

\* memory_test's allocations, in order, from the fresh heap
ScenNext(size) ==
    IF scen = 0 /\ size = 1024 THEN 1
    ELSE IF scen = 1 /\ size = 2048 THEN 2
    ELSE IF scen = 2 /\ size = 512 THEN 3
    ELSE 4

\* the addresses of the blocks of the list
BlockSet(m, first) ==
    LET set(bs) == {bs[i] : i \in 1 .. Len(bs)} IN set(Blocks(m, first))

NoFreeBelow(m, first, block) ==
    \A b \in BlockSet(m, first) : ULt(b, block) => ~IsFree(m, b)

Kmalloc(S, n, k) ==
    /\ ~halted /\ Budget(n)
    /\ \E size \in S :
        LET done(r) ==
                /\ Handed(r, k)
                /\ Returned(r, "kmalloc", size, 0, NULL)
                /\ issued' = issued \cup ({r.ret} \ {NULL})
                /\ armed' = IF r.ret = NULL THEN Idle
                            ELSE [stage |-> 1, ptr |-> r.ret, size |-> size,
                                  nolow |-> NoFreeBelow(mem, heap_first,
                                                        Sub32(r.ret, HeaderSize)),
                                  snap |-> BlockList(mem, heap_first)]
                /\ scen' = ScenNext(size)
        IN  done(kmalloc(mem, mem_stats, heap_first, size))

Kfree(P, n) ==
    /\ ~halted /\ Budget(n)
    /\ \E ptr \in issued \cup P :
        /\ Returned(kfree(mem, mem_stats, ptr), "kfree", 0, 0, ptr)
        /\ issued' = issued
        /\ armed' = IF armed.stage = 1 /\ ptr = armed.ptr
                    THEN [armed EXCEPT !.stage = 2] ELSE Idle
        /\ scen' = 4

Kcalloc(A, n, k) ==
    /\ ~halted /\ Budget(n)
    /\ \E a \in A :
        LET done(r) ==
                /\ Handed(r, k)
                /\ Returned(r, "kcalloc", a[2], a[1], NULL)
                /\ issued' = issued \cup ({r.ret} \ {NULL})
                /\ armed' = Idle
                /\ scen' = 4
        IN  done(kcalloc(mem, mem_stats, heap_first, a[1], a[2]))

Krealloc(P, S, n, k) ==
    /\ ~halted /\ Budget(n)
    /\ \E ptr \in issued \cup P, size \in S :
        LET done(r) ==
                /\ Handed(r, k)
                /\ Returned(r, "krealloc", size, 0, ptr)
                /\ issued' = issued \cup ({r.ret} \ {NULL})
                /\ armed' = Idle
                /\ scen' = 4
        IN  done(krealloc(mem, mem_stats, heap_first, ptr, size))

Next ==
    \/ Kmalloc(Sizes, MaxOps, MaxOps + 1)
    \/ Kfree({NULL}, MaxOps)
    \/ Kcalloc(CallocArgs, MaxOps, MaxOps + 1)
    \/ Krealloc({NULL}, Sizes, MaxOps, MaxOps + 1)

Spec == Init /\ [][Next]_vars

TrapNext ==
    \/ Kmalloc(DeepSizes, TrapOps, DeepPtrs)
    \/ Kfree({}, TrapOps)
    \/ Kcalloc(DeepCallocArgs, TrapOps, DeepPtrs)
    \/ Krealloc({}, DeepReallocSizes, TrapOps, DeepPtrs)

TrapSpec == Init /\ [][TrapNext]_vars

DeepNext ==
    \/ Kmalloc(DeepSizes, DeepOps, DeepPtrs)
    \/ Kfree({}, DeepOps)
    \/ Kcalloc(DeepCallocArgs, DeepOps, DeepPtrs)
    \/ Krealloc({}, DeepReallocSizes, DeepOps, DeepPtrs)

DeepSpec == Init /\ [][DeepNext]_vars

(* ----------------------- physical memory manager ----------------------- *)

PAGE_SIZE == 4096

\* 0x400000: the first frame pmm_init puts on the stack
FIRST_FRAME == 4194304

\* w / PAGE_SIZE for an unsigned 32-bit w
PageOf(w) == Hi(w) * 16 + (Lo(w) \div PAGE_SIZE)

\* the frame manager's variables as one value, for the calls that pass it on
Pmm(stack, count, max, used, stats) ==
    [stack |-> stack, count |-> count, max |-> max, used |-> used, stats |-> stats]

\* 0xFFFFF000: the last page; past it addr += PAGE_SIZE wraps to 0
LAST_PAGE == Word(65535, 61440)

\* turns of the loop of pmm_init: the addresses 4MB, 4MB + 4096, ... below
\* mem_size (for mem_size above LAST_PAGE addr wraps and the loop never ends)
turns(mem_size) ==
    IF ULt(FIRST_FRAME, mem_size)
    THEN PageOf(Add32(Sub32(mem_size, FIRST_FRAME), PAGE_SIZE - 1))
    ELSE 0

\* the stack the loop of pmm_init leaves: one push a turn while there is room
fill_stack(mem_size, max) ==
    LET first(n) == [i \in 1 .. n |-> FIRST_FRAME + (i - 1) * PAGE_SIZE]
    IN  first(IF turns(mem_size) < max THEN turns(mem_size) ELSE max)

pmm_init(P, mem_size) ==
    LET filled(max, stack) == [P EXCEPT !.max = max, !.stack = stack,
                                        !.count = Len(stack)]
        sized(max) == filled(max, fill_stack(mem_size, max))
    IN  IF ULt(LAST_PAGE, mem_size) THEN P
        ELSE sized(PageOf(Sub32(mem_size, FIRST_FRAME)))

pmm_alloc_page(P) ==
    IF P.count = 0
    THEN [pmm |-> P, ret |-> 0]
    ELSE [pmm |-> [P EXCEPT !.stack = SubSeq(@, 1, P.count - 1),
                            !.count = @ - 1,
                            !.used = Add32(@, 1),
                            !.stats.used_physical = Add32(@, PAGE_SIZE),
                            !.stats.free_physical = Sub32(@, PAGE_SIZE)],
          ret |-> P.stack[P.count]]

pmm_free_page(P, page) ==
    IF P.count >= P.max
    THEN P
    ELSE [P EXCEPT !.stack = Append(@, page),
                   !.count = @ + 1,
                   !.used = Sub32(@, 1),
                   !.stats.used_physical = Sub32(@, PAGE_SIZE),
                   !.stats.free_physical = Add32(@, PAGE_SIZE)]

pmm_get_free_pages == free_page_count

\* the variables as the calls take them, and as they leave them
PmmNow == Pmm(free_page_stack, free_page_count, max_free_pages, used_pages, mem_stats)

SetPmm(P) ==
    /\ free_page_stack' = P.stack
    /\ free_page_count' = P.count
    /\ max_free_pages' = P.max
    /\ used_pages' = P.used
    /\ mem_stats' = P.stats

PCall(op, mem_size, page, virt, phys, flags, ret) ==
    [op |-> op, mem_size |-> mem_size, page |-> page, virt |-> virt,
     phys |-> phys, flags |-> flags, ret |-> ret]

\* seq without its first entry equal to x
RemoveOne(seq, x) ==
    LET at == CHOOSE i \in 1 .. Len(seq) :
                  seq[i] = x /\ \A j \in 1 .. (i - 1) : seq[j] # x
    IN  [i \in 1 .. (Len(seq) - 1) |-> IF i < at THEN seq[i] ELSE seq[i + 1]]

InSeq(seq, x) == \E i \in 1 .. Len(seq) : seq[i] = x

\* calls of the frame manager a run may make, pmm_init included
PmmOps == 7

\* mem_size: 2MB, 4MB, two frames and a bit, 8MB, 4GB - 1
MemSizes == {2097152, FIRST_FRAME, FIRST_FRAME + 2 * PAGE_SIZE + 100, 8388608,
             Word(65535, 65535)}

\* pages freed that no call returned: 0, one below 4MB, one unaligned, and
\* the second frame whether or not it is out
StrayPages == {0, PAGE_SIZE, FIRST_FRAME + 291, FIRST_FRAME + PAGE_SIZE}

Pmm_init(M, n) ==
    /\ ~halted /\ pcall.op = "boot" /\ steps < n
    /\ \E mem_size \in M :
        /\ SetPmm(pmm_init(PmmNow, mem_size))
        /\ total_memory' = mem_size
        /\ halted' = ULt(LAST_PAGE, mem_size)
        /\ pcall' = PCall("pmm_init", mem_size, 0, 0, 0, 0, 0)
    /\ steps' = steps + 1
    /\ UNCHANGED <<mem, heapvars, page_directory, live, pairs>>

\* the caller either means to give the frame back as one of a run of pairs
\* (paired) or keeps it
Pmm_alloc_page(n) ==
    /\ ~halted /\ pcall.op # "boot" /\ steps < n
    /\ \E paired \in BOOLEAN :
        LET done(r) ==
                /\ SetPmm(r.pmm)
                /\ pcall' = PCall("pmm_alloc_page", 0, 0, 0, 0, 0, r.ret)
                /\ live' = live \cup ({r.ret} \ {0})
                /\ pairs' = IF ~paired THEN NoPairs
                            ELSE IF pairs.on
                            THEN [pairs EXCEPT !.out = Append(@, r.ret)]
                            ELSE [on |-> TRUE, base |-> free_page_count,
                                  out |-> <<r.ret>>]
        IN  done(pmm_alloc_page(PmmNow))
    /\ steps' = steps + 1
    /\ UNCHANGED <<mem, halted, heapvars, total_memory, page_directory>>

Pmm_free_page(Pg, n) ==
    /\ ~halted /\ pcall.op # "boot" /\ steps < n
    /\ \E page \in Pg \cup live \cup {pairs.out[i] : i \in 1 .. Len(pairs.out)} :
        /\ SetPmm(pmm_free_page(PmmNow, page))
        /\ pcall' = PCall("pmm_free_page", 0, page, 0, 0, 0, 0)
        /\ live' = live \ {page}
        /\ pairs' = IF pairs.on /\ InSeq(pairs.out, page)
                    THEN [pairs EXCEPT !.out = RemoveOne(@, page)]
                    ELSE NoPairs
    /\ steps' = steps + 1
    /\ UNCHANGED <<mem, halted, heapvars, total_memory, page_directory>>

PmmNext ==
    \/ Pmm_init(MemSizes, PmmOps)
    \/ Pmm_alloc_page(PmmOps)
    \/ Pmm_free_page(StrayPages, PmmOps)

PmmSpec == Init /\ [][PmmNext]_vars

(* ------------------------ virtual memory manager ------------------------ *)

\* 0xC0000000
KERNEL_VIRTUAL_BASE == Word(49152, 0)

PAGE_PRESENT == 1

PAGE_WRITABLE == 2

PAGE_USER == 4

\* x | y for x, y below 2^bits
RECURSIVE OrBits(_, _, _)
OrBits(x, y, bits) ==
    IF bits = 0 THEN 0
    ELSE (IF x % 2 = 1 \/ y % 2 = 1 THEN 1 ELSE 0)
         + 2 * OrBits(x \div 2, y \div 2, bits - 1)

\* w | flags for flags below PAGE_SIZE
OrFlags(w, flags) ==
    Word(Hi(w), (Lo(w) - (Lo(w) % PAGE_SIZE)) + OrBits(Lo(w) % PAGE_SIZE, flags, 12))

\* w & bit for a flag bit below PAGE_SIZE
AndBit(w, bit) == ((Lo(w) \div bit) % 2) * bit

\* w & ~0xFFF
PageBase(w) == Word(Hi(w), Lo(w) - (Lo(w) % PAGE_SIZE))

\* virt_addr >> 22, (virt_addr >> 12) & 0x3FF, virt_addr & 0xFFF
DirIndex(virt_addr) == Hi(virt_addr) \div 64

TableIndex(virt_addr) == PageOf(virt_addr) % 1024

Offset(virt_addr) == Lo(virt_addr) % PAGE_SIZE

\* &page_directory[page_dir_index]
DirSlot(dir, virt_addr) == Add32(dir, 4 * DirIndex(virt_addr))

\* &page_table[page_table_index], the table being the one the directory names
TableSlot(m, dir, virt_addr) ==
    Add32(Add32(PageBase(Rd(m, DirSlot(dir, virt_addr))), KERNEL_VIRTUAL_BASE),
          4 * TableIndex(virt_addr))

\* memory, frame manager and page_directory as one value
Vmm(m, P, dir) == [mem |-> m, pmm |-> P, dir |-> dir]

\* vmm_map_page from "Map the page" on
set_entry(S, virt_addr, phys_addr, flags) ==
    [S EXCEPT !.mem = Wr(@, TableSlot(@, S.dir, virt_addr), OrFlags(phys_addr, flags))]

\* vmm_map_page once pmm_alloc_page has given page_table_phys
new_table(S, virt_addr, flags, page_table_phys) ==
    LET named(m) == Wr(m, DirSlot(S.dir, virt_addr),
                       OrFlags(page_table_phys,
                               PAGE_PRESENT + PAGE_WRITABLE + AndBit(flags, PAGE_USER)))
    IN  MemsetZero(named(S.mem), Add32(page_table_phys, KERNEL_VIRTUAL_BASE), PAGE_SIZE)

\* vmm_map_page without the return on a null page_table_phys
vmm_map_page_unchecked(S, virt_addr, phys_addr, flags) ==
    LET got(r) == set_entry([S EXCEPT !.pmm = r.pmm,
                                      !.mem = new_table(S, virt_addr, flags, r.ret)],
                            virt_addr, phys_addr, flags)
    IN  IF AndBit(Rd(S.mem, DirSlot(S.dir, virt_addr)), PAGE_PRESENT) = 0
        THEN got(pmm_alloc_page(S.pmm))
        ELSE set_entry(S, virt_addr, phys_addr, flags)

vmm_map_page(S, virt_addr, phys_addr, flags) ==
    LET got(r) == IF r.ret = 0 THEN [S EXCEPT !.pmm = r.pmm]
                  ELSE set_entry([S EXCEPT !.pmm = r.pmm,
                                           !.mem = new_table(S, virt_addr, flags, r.ret)],
                                 virt_addr, phys_addr, flags)
    IN  IF AndBit(Rd(S.mem, DirSlot(S.dir, virt_addr)), PAGE_PRESENT) = 0
        THEN got(pmm_alloc_page(S.pmm))
        ELSE set_entry(S, virt_addr, phys_addr, flags)

vmm_unmap_page(S, virt_addr) ==
    LET clear(slot) ==
            IF AndBit(Rd(S.mem, slot), PAGE_PRESENT) # 0
            THEN [S EXCEPT !.pmm = pmm_free_page(@, PageBase(Rd(S.mem, slot))),
                           !.mem = Wr(@, slot, 0)]
            ELSE S
    IN  IF AndBit(Rd(S.mem, DirSlot(S.dir, virt_addr)), PAGE_PRESENT) = 0
        THEN S
        ELSE clear(TableSlot(S.mem, S.dir, virt_addr))

vmm_get_physical(m, dir, virt_addr) ==
    IF AndBit(Rd(m, DirSlot(dir, virt_addr)), PAGE_PRESENT) = 0 THEN 0
    ELSE IF AndBit(Rd(m, TableSlot(m, dir, virt_addr)), PAGE_PRESENT) = 0 THEN 0
    ELSE Add32(PageBase(Rd(m, TableSlot(m, dir, virt_addr))), Offset(virt_addr))

vmm_is_mapped(m, dir, virt_addr) == vmm_get_physical(m, dir, virt_addr) # 0

\* the identity-mapping loop of vmm_init over the pages lo .. hi of the first
\* 4MB: the lower half of the range, then the upper half from the state the
\* lower half left
RECURSIVE map_kernel(_, _, _)
map_kernel(S, lo, hi) ==
    IF lo = hi
    THEN vmm_map_page(S, Add32(lo * PAGE_SIZE, KERNEL_VIRTUAL_BASE), lo * PAGE_SIZE,
                      PAGE_PRESENT + PAGE_WRITABLE)
    ELSE CHOOSE after \in {map_kernel(half, ((lo + hi) \div 2) + 1, hi) :
                               half \in {map_kernel(S, lo, (lo + hi) \div 2)}} : TRUE

vmm_init(m, P) ==
    LET cleared(r, dir) == Vmm(MemsetZero(m, dir, PAGE_SIZE), r.pmm, dir)
        with(r) == cleared(r, Add32(r.ret, KERNEL_VIRTUAL_BASE))
    IN  map_kernel(with(pmm_alloc_page(P)), 0, (FIRST_FRAME \div PAGE_SIZE) - 1)

\* calls a paging run may make, pmm_init and vmm_init included
VmmOps == 7

\* mem_size: 4MB (no frame at all) and 4MB plus four frames
VmmMemSizes == {FIRST_FRAME, FIRST_FRAME + 4 * PAGE_SIZE}

\* 0xC0000000 and 0xC0001004 in the range vmm_init maps, 0x00400000 and
\* 0x00800FFF in ranges that have no page table after vmm_init
VAddrs == {KERNEL_VIRTUAL_BASE, Add32(KERNEL_VIRTUAL_BASE, PAGE_SIZE + 4),
           FIRST_FRAME, 2 * FIRST_FRAME + (PAGE_SIZE - 1)}

\* phys_addr and flags of the mappings made: frame 0 for user code, the frame
\* at 0x1000 for the kernel
MapArgs == {<<0, PAGE_PRESENT + PAGE_USER>>, <<PAGE_SIZE, PAGE_PRESENT + PAGE_WRITABLE>>}

\* offsets within a page at which translations are observed
Offsets == {0, 4, PAGE_SIZE - 1}

SamePage(v) == {Add32(PageBase(v), off) : off \in Offsets}

Probes == UNION {SamePage(v) : v \in VAddrs}

SetVmm(S) ==
    /\ mem' = S.mem
    /\ SetPmm(S.pmm)
    /\ page_directory' = S.dir

Paging == pcall.op \in {"vmm_init", "vmm_map_page", "vmm_unmap_page"}

Vmm_init(n) ==
    /\ ~halted /\ pcall.op = "pmm_init" /\ steps < n
    /\ SetVmm(vmm_init(mem, PmmNow))
    /\ pcall' = PCall("vmm_init", 0, 0, 0, 0, 0, 0)
    /\ steps' = steps + 1
    /\ UNCHANGED <<halted, heapvars, total_memory, live, pairs>>

Vmm_map_page(n) ==
    /\ ~halted /\ Paging /\ steps < n
    /\ \E virt_addr \in VAddrs, a \in MapArgs :
        /\ SetVmm(vmm_map_page(Vmm(mem, PmmNow, page_directory), virt_addr, a[1], a[2]))
        /\ pcall' = PCall("vmm_map_page", 0, 0, virt_addr, a[1], a[2], 0)
    /\ steps' = steps + 1
    /\ UNCHANGED <<halted, heapvars, total_memory, live, pairs>>

Vmm_unmap_page(n) ==
    /\ ~halted /\ Paging /\ steps < n
    /\ \E virt_addr \in VAddrs :
        /\ SetVmm(vmm_unmap_page(Vmm(mem, PmmNow, page_directory), virt_addr))
        /\ pcall' = PCall("vmm_unmap_page", 0, 0, virt_addr, 0, 0, 0)
    /\ steps' = steps + 1
    /\ UNCHANGED <<halted, heapvars, total_memory, live, pairs>>

VmmNext ==
    \/ Pmm_init(VmmMemSizes, VmmOps)
    \/ Vmm_init(VmmOps)
    \/ Vmm_map_page(VmmOps)
    \/ Vmm_unmap_page(VmmOps)

VmmSpec == Init /\ [][VmmNext]_vars

\* calls a run of ExhaustSpec may make, pmm_init and vmm_init included
ExhaustOps == 5

\* mem_size: 4MB plus the two frames vmm_init takes, and plus one more
ExhaustMemSizes == {FIRST_FRAME + 2 * PAGE_SIZE, FIRST_FRAME + 3 * PAGE_SIZE}

ExhaustNext ==
    \/ Pmm_init(ExhaustMemSizes, ExhaustOps)
    \/ Vmm_init(ExhaustOps)
    \/ Vmm_map_page(ExhaustOps)
    \/ Vmm_unmap_page(ExhaustOps)

ExhaustSpec == Init /\ [][ExhaustNext]_vars

(* ------------------------------- heap_init ------------------------------ *)

\* 0xD0000000
HEAP_VIRTUAL_START == Word(53248, 0)

INITIAL_PAGES == 16

\* the page-mapping loop of heap_init from page i on: a frame that
\* pmm_alloc_page gives is passed to vmm_map_page and heap_end moves on,
\* whether or not vmm_map_page mapped it; no frame, no move
RECURSIVE map_heap(_, _, _)
map_heap(S, end, i) ==
    LET got(r) ==
            IF r.ret # 0
            THEN map_heap(vmm_map_page([S EXCEPT !.pmm = r.pmm],
                                       Add32(HEAP_VIRTUAL_START, i * PAGE_SIZE), r.ret,
                                       PAGE_PRESENT + PAGE_WRITABLE),
                          Add32(end, PAGE_SIZE), i + 1)
            ELSE map_heap([S EXCEPT !.pmm = r.pmm], end, i + 1)
    IN  IF i = INITIAL_PAGES THEN [vmm |-> S, heap_end |-> end]
        ELSE got(pmm_alloc_page(S.pmm))

\* addresses are used as given: enable_paging is outside the sources and no
\* translation of the stores to heap_first is modelled
heap_init(S) ==
    LET first(L) ==
            [mem |-> WriteHeader(L.vmm.mem, HEAP_VIRTUAL_START, HEAP_MAGIC_FREE,
                                 INITIAL_PAGES * PAGE_SIZE - HeaderSize, 1, NULL, NULL),
             pmm |-> [L.vmm.pmm EXCEPT
                          !.stats.heap_size = INITIAL_PAGES * PAGE_SIZE,
                          !.stats.heap_free = INITIAL_PAGES * PAGE_SIZE - HeaderSize],
             dir |-> L.vmm.dir,
             heap_start |-> HEAP_VIRTUAL_START,
             heap_end |-> L.heap_end,
             heap_first |-> HEAP_VIRTUAL_START]
    IN  first(map_heap(S, HEAP_VIRTUAL_START, 0))

\* calls a run of HeapInitSpec may make, pmm_init and vmm_init included
HeapInitOps == 6

\* mem_size: 4MB plus 2, 3, 4, 10, 18, 19 or 20 frames; vmm_init takes two
\* and heap_init asks for seventeen
HeapMemSizes == {FIRST_FRAME + k * PAGE_SIZE : k \in {2, 3, 4, 10, 18, 19, 20}}

Heap_init(n) ==
    /\ ~halted /\ page_directory # NULL /\ heap_start # HEAP_VIRTUAL_START /\ steps < n
    /\ LET done(H) ==
               /\ mem' = H.mem
               /\ SetPmm(H.pmm)
               /\ page_directory' = H.dir
               /\ heap_start' = H.heap_start
               /\ heap_end' = H.heap_end
               /\ heap_first' = H.heap_first
       IN  done(heap_init(Vmm(mem, PmmNow, page_directory)))
    /\ issued' = {}
    /\ call' = [op |-> "heap_init", size |-> 0, count |-> 0, ptr |-> NULL,
                ret |-> NULL, msgs |-> <<>>]
    /\ armed' = Idle
    /\ scen' = 0
    /\ pcall' = PCall("heap_init", 0, 0, 0, 0, 0, 0)
    /\ steps' = steps + 1
    /\ UNCHANGED <<halted, total_memory, live, pairs>>

HeapInitNext ==
    \/ Pmm_init(HeapMemSizes, HeapInitOps)
    \/ Vmm_init(HeapInitOps)
    \/ Pmm_alloc_page(HeapInitOps)
    \/ Heap_init(HeapInitOps)

HeapInitSpec == Init /\ [][HeapInitNext]_vars

\* both the directory entry and the table entry of virt_addr carry PAGE_PRESENT
Present(m, dir, virt_addr) ==
    /\ AndBit(Rd(m, DirSlot(dir, virt_addr)), PAGE_PRESENT) # 0
    /\ AndBit(Rd(m, TableSlot(m, dir, virt_addr)), PAGE_PRESENT) # 0

\* vmm_map_page(virt_addr, ...) finds a page table or can get a frame for one
Obtainable(virt_addr) ==
    \/ AndBit(Rd(mem, DirSlot(page_directory, virt_addr)), PAGE_PRESENT) # 0
    \/ pmm_alloc_page(PmmNow).ret # 0

(* ----------------------------- observations ----------------------------- *)

\* every block of the list with all five fields of its header
Headers(m, first) ==
    LET list(bs) == [i \in 1 .. Len(bs) |->
                        <<bs[i], Magic(m, bs[i]), Size(m, bs[i]), IsFree(m, bs[i]),
                          NextOf(m, bs[i]), PrevOf(m, bs[i])>>]
    IN  list(Blocks(m, first))

\* sum of sizeof(heap_block_t) + size over the blocks bs[i..]
RECURSIVE SumFrom(_, _, _)
SumFrom(m, bs, i) ==
    IF i > Len(bs) THEN 0
    ELSE Add32(Add32(HeaderSize, Size(m, bs[i])), SumFrom(m, bs, i + 1))

HeapTotal(m, first) == SumFrom(m, Blocks(m, first), 1)

\* size + 7 does not fit in 32 bits: no multiple of 8 at or above size does
Overflows(size) == ULe(WRAP_SIZE, size)

\* the free blocks that can hold size rounded up to a multiple of 8
Fits(m, first, size) ==
    {b \in BlockSet(m, first) :
        IsFree(m, b) /\ ~Overflows(size) /\ ULe(Align8(size), Size(m, b))}

Lowest(F) == CHOOSE b \in F : \A c \in F : ULe(b, c)

\* sum of size over those of the blocks bs[i..] whose is_free flag is free
RECURSIVE SizeSum(_, _, _, _)
SizeSum(m, bs, i, free) ==
    IF i > Len(bs) THEN 0
    ELSE Add32(IF IsFree(m, bs[i]) = free THEN Size(m, bs[i]) ELSE 0,
               SizeSum(m, bs, i + 1, free))

FreeBytes(m, first) == SizeSum(m, Blocks(m, first), 1, TRUE)

UsedBytes(m, first) == SizeSum(m, Blocks(m, first), 1, FALSE)

\* pointers handed out whose header is no longer a block of the list
Absorbed(m, first, ptrs) ==
    {p \in ptrs : Sub32(p, HeaderSize) \notin BlockSet(m, first)}

(* ------------------------------ properties ------------------------------ *)

\* C1: whenever a call has returned, header size plus block size summed over
\* the blocks reachable from heap_first equals heap_end - heap_start.
C1_SizeConservation ==
    ~halted => HeapTotal(mem, heap_first) = Sub32(heap_end, heap_start)

\* C2: whenever a call has returned, the list from heap_first ends at NULL
\* without meeting a block twice, heap_first has no prev, and every block with
\* a next has it at its own address + header size + size, with prev pointing
\* back.
C2_LinkAdjacency ==
    ~halted =>
        LET bs == Blocks(mem, heap_first)
        IN  /\ NextOf(mem, bs[Len(bs)]) = NULL
            /\ PrevOf(mem, heap_first) = NULL
            /\ \A i \in 1 .. Len(bs) :
                   NextOf(mem, bs[i]) # NULL =>
                       /\ NextOf(mem, bs[i])
                            = Add32(Add32(bs[i], HeaderSize), Size(mem, bs[i]))
                       /\ PrevOf(mem, NextOf(mem, bs[i])) = bs[i]

\* C3: a kfree of a pointer whose header magic is not HEAP_MAGIC_ALLOC prints
\* the double-free report and returns, and every block's magic, size, is_free,
\* next and prev and the whole of mem_stats are as they were before the call.
C3_RejectedFree ==
    [][(/\ call'.op = "kfree"
        /\ call'.ptr # NULL
        /\ Magic(mem, Sub32(call'.ptr, HeaderSize)) # HEAP_MAGIC_ALLOC)
       => /\ call'.msgs = <<DoubleFreeMsg>>
          /\ ~halted'
          /\ Headers(mem', heap_first') = Headers(mem, heap_first)
          /\ mem_stats' = mem_stats]_vars

\* C3 happens: a pointer that kmalloc or krealloc handed out has just been
\* refused by kfree because its header holds neither magic value.
C3_InvalidMagicRefused ==
    /\ call.op = "kfree"
    /\ call.ptr \in issued
    /\ call.msgs = <<DoubleFreeMsg>>
    /\ Magic(mem, Sub32(call.ptr, HeaderSize)) \notin {HEAP_MAGIC_ALLOC, HEAP_MAGIC_FREE}

\* C4: whenever a call has returned, no block of the list that is free is
\* followed in memory (at its address + header size + size) by a block of the
\* list that is free too.
C4_NoAdjacentFree ==
    ~halted =>
        \A b, c \in BlockSet(mem, heap_first) :
            c = Add32(Add32(b, HeaderSize), Size(mem, b))
                => ~(IsFree(mem, b) /\ IsFree(mem, c))

\* C5: a kmalloc of a size > 0 that returns gives the payload address of the
\* lowest free block whose size is at least the size rounded up to a multiple
\* of 8, and gives NULL exactly when there is no such block.
C5_FirstFit ==
    [][(call'.op = "kmalloc" /\ call'.size # 0 /\ ~halted')
       => IF Fits(mem, heap_first, call'.size) = {}
          THEN call'.ret = NULL
          ELSE call'.ret = Add32(Lowest(Fits(mem, heap_first, call'.size)), HeaderSize)]_vars

\* C6: a kmalloc that returns a pointer returns a block whose size field is
\* at least the size asked for, for every 32-bit size.
C6_RoundedUp ==
    [][(call'.op = "kmalloc" /\ call'.ret # NULL)
       => ULe(call'.size, Size(mem', Sub32(call'.ret, HeaderSize)))]_vars

\* C7: a kfree of the pointer the kmalloc just before it returned leaves the
\* list with the block addresses, sizes and free flags it had before that
\* kmalloc.
C7_RoundTrip ==
    [][(armed.stage = 1 /\ call'.op = "kfree" /\ call'.ptr = armed.ptr /\ ~halted')
       => BlockList(mem', heap_first') = armed.snap]_vars

\* C8: a kmalloc of a size > 0 made when no free block can hold the rounded
\* size returns NULL and leaves every header field of every block and every
\* counter of mem_stats as it was.
C8_ExhaustionIdempotent ==
    [][(/\ call'.op = "kmalloc"
        /\ call'.size # 0
        /\ ~halted'
        /\ Fits(mem, heap_first, call'.size) = {})
       => /\ call'.ret = NULL
          /\ Headers(mem', heap_first') = Headers(mem, heap_first)
          /\ mem_stats' = mem_stats]_vars

\* C9: after p = kmalloc(n) made with no free block below the one it took,
\* and kfree(p) straight after it, a kmalloc(m) with 0 < m <= n returns p.
C9_ReuseAfterFree ==
    [][(/\ armed.stage = 2
        /\ armed.nolow
        /\ call'.op = "kmalloc"
        /\ call'.size # 0
        /\ ULe(call'.size, armed.size)
        /\ ~halted')
       => call'.ret = armed.ptr]_vars

\* C10: after kmalloc(1024), kmalloc(2048), kmalloc(512) on the heap
\* memory_init left, the three pointers are the payloads of three allocated
\* blocks of those sizes laid out one after the other from heap_start, and the
\* list ends with one free block of 65536 - 4 * 28 - 3584 bytes.
C10_ThreeAllocations ==
    scen = 3 =>
        LET b1 == heap_start
            b2 == b1 + HeaderSize + 1024
            b3 == b2 + HeaderSize + 2048
            b4 == b3 + HeaderSize + 512
        IN  /\ issued = {b1 + HeaderSize, b2 + HeaderSize, b3 + HeaderSize}
            /\ BlockList(mem, heap_first)
                 = << <<b1, 1024, FALSE>>, <<b2, 2048, FALSE>>, <<b3, 512, FALSE>>,
                      <<b4, (65536 - 4 * HeaderSize) - 3584, TRUE>> >>

\* C10 happens: the third allocation of memory_test has just returned.
C10_ThirdAllocated ==
    scen = 3 /\ call.op = "kmalloc" /\ call.size = 512 /\ call.ret # NULL

\* C11: krealloc(ptr, size) with ptr and size non-zero: with a magic other
\* than HEAP_MAGIC_ALLOC in front of ptr it returns NULL and changes nothing;
\* with block.size >= size it returns ptr and changes nothing; otherwise a
\* NULL result leaves every header and mem_stats as they were, and a non-NULL
\* result is another pointer, to an allocated block of size >= size, with the
\* old block marked free.
C11_Realloc ==
    [][(/\ call'.op = "krealloc"
        /\ call'.ptr # NULL
        /\ call'.size # 0
        /\ ~halted')
       => LET block == Sub32(call'.ptr, HeaderSize)
              new_block == Sub32(call'.ret, HeaderSize)
              same == /\ Headers(mem', heap_first') = Headers(mem, heap_first)
                      /\ mem_stats' = mem_stats
          IN  IF Magic(mem, block) # HEAP_MAGIC_ALLOC
              THEN call'.ret = NULL /\ same
              ELSE IF ULe(call'.size, Size(mem, block))
              THEN call'.ret = call'.ptr /\ same
              ELSE IF call'.ret = NULL
              THEN same
              ELSE /\ call'.ret # call'.ptr
                   /\ Magic(mem', new_block) = HEAP_MAGIC_ALLOC
                   /\ ~IsFree(mem', new_block)
                   /\ ULe(call'.size, Size(mem', new_block))
                   /\ Magic(mem', block) = HEAP_MAGIC_FREE]_vars

\* x * y >= 2^16 for 16-bit x and y
Big16(x, y) == y > 0 /\ x > 65535 \div y

\* bits 16 and up of x * y for 16-bit x and y
Carry16(x, y) == (((x \div 256) * y) + (((x % 256) * y) \div 256)) \div 256

\* the product of a and b as natural numbers does not fit in 32 bits
MulOverflows(a, b) ==
    \/ Hi(a) > 0 /\ Hi(b) > 0
    \/ Big16(Lo(a), Hi(b))
    \/ Big16(Hi(a), Lo(b))
    \/ (Lo(a) * Hi(b)) + (Hi(a) * Lo(b)) + Carry16(Lo(a), Lo(b)) >= 65536

\* C12: a kcalloc(count, size) that returns gives NULL when count * size
\* exceeds 32 bits, and otherwise NULL or a block whose size field is at least
\* count * size with that many bytes of payload reading zero.
C12_CallocProduct ==
    [][(call'.op = "kcalloc" /\ ~halted')
       => IF MulOverflows(call'.count, call'.size)
          THEN call'.ret = NULL
          ELSE call'.ret # NULL =>
                  /\ ULe(Mul32(call'.count, call'.size),
                         Size(mem', Sub32(call'.ret, HeaderSize)))
                  /\ \A x \in DOMAIN mem' :
                         ~InRange(x, call'.ret, Mul32(call'.count, call'.size))]_vars

\* C13: once every frame of a run of pmm_alloc_page / pmm_free_page pairs has
\* been given back, pmm_get_free_pages() is what it was when the run began,
\* whatever the pool held then.
C13_FramesConserved ==
    (pairs.on /\ pairs.out = <<>>) => pmm_get_free_pages = pairs.base

\* C14: pmm_alloc_page never returns a frame that an earlier pmm_alloc_page
\* returned and no pmm_free_page has taken back since.
C14_NoDoubleAllocation ==
    [][(pcall'.op = "pmm_alloc_page" /\ pcall'.ret # 0)
       => pcall'.ret \notin live]_vars

\* C15: after pmm_init(m) has returned, every entry of the free page stack is
\* a page-aligned address in [4MB, m), no address is on it twice,
\* free_page_count <= max_free_pages, and used_pages has not gone below zero
\* (read as unsigned it is no more than the 2^20 frames there can be).
C15_PoolIntegrity ==
    (pcall.op # "boot" /\ ~halted) =>
        /\ \A i \in 1 .. free_page_count :
               /\ Lo(free_page_stack[i]) % PAGE_SIZE = 0
               /\ ULe(FIRST_FRAME, free_page_stack[i])
               /\ ULt(free_page_stack[i], total_memory)
               /\ \A j \in 1 .. free_page_count :
                      free_page_stack[i] = free_page_stack[j] => i = j
        /\ free_page_count <= max_free_pages
        /\ ULe(used_pages, PageOf(LAST_PAGE) + 1)

\* C16: a pmm_init(m) that returns leaves exactly the frames 4MB, 4MB + 4096,
\* ... wholly below m on the stack, (m - 4MB) / 4096 of them, for m >= 4MB,
\* and no frame and no capacity for m < 4MB; a pmm_alloc_page straight after
\* it on a pool that holds a frame lowers the count by one and returns an
\* address in [4MB, m).
C16_InitPopulates ==
    [][/\ (pcall'.op = "pmm_init" /\ ~halted')
          => IF ULe(FIRST_FRAME, pcall'.mem_size)
             THEN /\ free_page_count' = PageOf(Sub32(pcall'.mem_size, FIRST_FRAME))
                  /\ free_page_stack'
                       = [i \in 1 .. free_page_count' |->
                              FIRST_FRAME + (i - 1) * PAGE_SIZE]
                  /\ \A i \in 1 .. free_page_count' :
                         ULe(Add32(free_page_stack'[i], PAGE_SIZE), pcall'.mem_size)
             ELSE free_page_count' = 0 /\ max_free_pages' = 0
       /\ (pcall.op = "pmm_init" /\ pcall'.op = "pmm_alloc_page" /\ free_page_count > 0)
          => /\ free_page_count' = free_page_count - 1
             /\ ULe(FIRST_FRAME, pcall'.ret)
             /\ ULt(pcall'.ret, total_memory)]_vars

\* C17: pmm_alloc_page on an empty pool returns 0 and leaves the stack, both
\* counters and mem_stats alone; on a pool that holds anything it returns a
\* non-zero frame.
C17_ExhaustionSignal ==
    [][pcall'.op = "pmm_alloc_page"
       => IF free_page_count = 0
          THEN /\ pcall'.ret = 0
               /\ UNCHANGED <<free_page_stack, free_page_count, used_pages, mem_stats>>
          ELSE pcall'.ret # 0]_vars

\* C18: after vmm_map_page(v, p, flags), with p page-aligned, flags holding
\* PAGE_PRESENT and a page table available or obtainable, vmm_get_physical
\* gives p plus the offset for every address in the page of v, and the
\* translation of every address in another page is what it was.
C18_MapRoundTrip ==
    [][(pcall'.op = "vmm_map_page" /\ Obtainable(pcall'.virt)) =>
        /\ \A v \in SamePage(pcall'.virt) :
               vmm_get_physical(mem', page_directory', v)
                   = Add32(pcall'.phys, Offset(v))
        /\ \A u \in Probes \ SamePage(pcall'.virt) :
               vmm_get_physical(mem', page_directory', u)
                   = vmm_get_physical(mem, page_directory, u)]_vars

\* C19: vmm_unmap_page(v) of a mapped v, whatever the pool holds, leaves v
\* reported unmapped, its table entry 0, pmm_get_free_pages() one greater
\* and the frame v was mapped to in the pool; of an unmapped v it changes
\* nothing.
C19_UnmapReturnsFrame ==
    [][pcall'.op = "vmm_unmap_page" =>
        IF Present(mem, page_directory, pcall'.virt)
        THEN /\ vmm_get_physical(mem', page_directory', pcall'.virt) = 0
             /\ Rd(mem', TableSlot(mem, page_directory, pcall'.virt)) = 0
             /\ free_page_count' = free_page_count + 1
             /\ InSeq(free_page_stack',
                      PageBase(Rd(mem, TableSlot(mem, page_directory, pcall'.virt))))
        ELSE UNCHANGED <<mem, page_directory, free_page_stack, free_page_count,
                         max_free_pages, used_pages, mem_stats>>]_vars

\* C20: in every page-table state, vmm_is_mapped(v) is true exactly when the
\* directory entry and the table entry of v both carry PAGE_PRESENT, pages
\* mapped to frame 0 included.
C20_IsMappedIffPresent ==
    Paging => \A v \in Probes :
                  vmm_is_mapped(mem, page_directory, v)
                      <=> Present(mem, page_directory, v)

\* C21: a vmm_map_page(v, p, flags) made when the directory entry of v is
\* not present and the pool is empty leaves the page directory, the page
\* tables, the pool and its counters as they were, and v is still unmapped.
C21_MapNoFrame ==
    [][(/\ pcall'.op = "vmm_map_page"
        /\ AndBit(Rd(mem, DirSlot(page_directory, pcall'.virt)), PAGE_PRESENT) = 0
        /\ free_page_count = 0) =>
        /\ UNCHANGED <<mem, page_directory, free_page_stack, free_page_count,
                       max_free_pages, used_pages, mem_stats>>
        /\ ~Present(mem', page_directory', pcall'.virt)
        /\ vmm_get_physical(mem', page_directory', pcall'.virt) = 0]_vars

\* the first call after vmm_init took the only two frames is a vmm_map_page
\* for an address with no page table
C21_MapRefused ==
    /\ pcall.op = "vmm_map_page" /\ steps = 3
    /\ max_free_pages = 2 /\ free_page_count = 0
    /\ AndBit(Rd(mem, DirSlot(page_directory, pcall.virt)), PAGE_PRESENT) = 0

\* C22: after heap_init returns, whatever the pool held when it was called,
\* every page of the arena the first block describes, from heap_start to
\* heap_start + sizeof(heap_block_t) + heap_first.size, is mapped, and that
\* length is both heap_end - heap_start and mem_stats.heap_size.
C22_HeapInitBacked ==
    pcall.op = "heap_init" =>
        /\ \A i \in 0 .. (PageOf(Add32(Add32(HeaderSize, Size(mem, heap_first)),
                                       PAGE_SIZE - 1)) - 1) :
               Present(mem, page_directory, Add32(heap_start, i * PAGE_SIZE))
        /\ Add32(HeaderSize, Size(mem, heap_first)) = Sub32(heap_end, heap_start)
        /\ Sub32(heap_end, heap_start) = mem_stats.heap_size

\* C23: whenever a call has returned, mem_stats.heap_free is the sum of size
\* over the free blocks of the list and mem_stats.heap_used the sum of size
\* over the allocated ones, whether or not an allocation split its block.
C23_StatsTrackList ==
    ~halted =>
        /\ mem_stats.heap_free = FreeBytes(mem, heap_first)
        /\ mem_stats.heap_used = UsedBytes(mem, heap_first)

\* C24: whenever a call has returned, every block of the list has magic
\* HEAP_MAGIC_FREE exactly when its is_free is 1 and HEAP_MAGIC_ALLOC exactly
\* when its is_free is 0, and no pointer handed out whose header a merge has
\* absorbed passes the magic check of kfree; and every header a call takes
\* out of the list carries HEAP_MAGIC_FREE when the call returns.
C24_TagFlagAgreement ==
    /\ [](~halted =>
            /\ \A b \in BlockSet(mem, heap_first) :
                   /\ Magic(mem, b) = HEAP_MAGIC_FREE
                          <=> Rd(mem, Add32(b, OFF_IS_FREE)) = 1
                   /\ Magic(mem, b) = HEAP_MAGIC_ALLOC
                          <=> Rd(mem, Add32(b, OFF_IS_FREE)) = 0
            /\ \A p \in Absorbed(mem, heap_first, issued) :
                   Magic(mem, Sub32(p, HeaderSize)) # HEAP_MAGIC_ALLOC)
    /\ [][~halted' =>
            \A b \in BlockSet(mem, heap_first) \ BlockSet(mem', heap_first') :
                Magic(mem', b) = HEAP_MAGIC_FREE]_vars

=============================================================================
